---- MODULE Spec2Model ----
(***************************************************************************)
(* tsv: a relay between a Tailscale (tsnet) node and a userland WireGuard  *)
(* tunnel.  The module models                                              *)
(*   - the route reconciler      (tsnet.go, TailscaleNode.UpdateRoutes),   *)
(*   - the route comparison      (tsnet.go, TailscaleNode.routesDifferent),*)
(*   - the link health monitor   (WireGuardClient.healthCheck),             *)
(*   - the connection relay      (proxy.go, Proxy.handleConnection).       *)
(* Each part has its own specification over the shared state; the parts    *)
(* that a specification does not run stay in their initial state.          *)
(***************************************************************************)
EXTENDS Integers, Sequences, FiniteSets, TLC

\* ------------------------------------------------------------------------
\* Bounds of the model
\* ------------------------------------------------------------------------
MaxLen == 3      \* longest prefix list handed to routesDifferent
MaxRoutes == 2   \* longest prefix list a resolver cycle delivers
MaxProbes == 7   \* health probes made before the model stops the ticker
LoopProbes == 3
MaxStr == 4
MaxConns == 2    \* inbound connections handed to the relay

\* ------------------------------------------------------------------------
\* Prefixes (netip.Prefix: an address and a bit length, compared structurally)
\* ------------------------------------------------------------------------
Addrs == {"10.0.0.5", "192.168.1.7", "2001:db8::1"}

Is4(addr) == addr \in {"10.0.0.5", "192.168.1.7"}

PrefixFrom(addr, bits) == [addr |-> addr, bits |-> bits]

\* the prefix resolveDomains builds for one resolved address
HostPrefix(addr) == IF Is4(addr) THEN PrefixFrom(addr, 32) ELSE PrefixFrom(addr, 128)

\* the prefixes resolveDomains can build
HostPrefixes == {HostPrefix(a) : a \in Addrs}

\* prefixes used as test inputs: the host routes and one network route
Prefixes == HostPrefixes \cup {PrefixFrom("10.0.0.5", 24)}

Range(s) == {s[i] : i \in 1..Len(s)}

SeqsUpTo(S, n) == UNION {[1..k -> S] : k \in 0..n}

IsDupFree(s) == \A i, j \in 1..Len(s) : s[i] = s[j] => i = j

\* all prefix lists up to MaxLen, repeated elements included
RouteLists == SeqsUpTo(Prefixes, MaxLen)

\* ------------------------------------------------------------------------
\* routesDifferent (tsnet.go:101-118), computed as the code computes it
\* ------------------------------------------------------------------------
\* the membership index built over tn.routes
oldMap(rs) == {rs[i] : i \in 1..Len(rs)}

\* mutant: the lists are compared element by element, in order
routesDifferent_Ordered(rs, newRoutes) == rs # newRoutes

\* mutant: the cardinality pre-check is left out
routesDifferent_NoLenCheck(rs, newRoutes) ==
    \E i \in 1..Len(newRoutes) : newRoutes[i] \notin oldMap(rs)

routesDifferent(rs, newRoutes) ==
    IF Len(rs) # Len(newRoutes)
    THEN TRUE
    ELSE \E i \in 1..Len(newRoutes) : newRoutes[i] \notin oldMap(rs)

Verdict(b) == IF b THEN "different" ELSE "same"

\* ------------------------------------------------------------------------
\* State
\* ------------------------------------------------------------------------
VARIABLES
    \* TestRoutesDifferent (tsnet_test.go): a node built with routes tOld,
    \* asked about tNew, and the same question with the roles exchanged
    tOld, tNew, tGot, tGotRev,
    \* TailscaleNode and the UpdateRoutes call in progress
    routes,         \* tn.routes
    oldRoutes,      \* UpdateRoutes' local oldRoutes
    urPc,           \* "idle" | "push": where UpdateRoutes is
    urArg,          \* the routes argument of the call in progress
    lastPushed,     \* argument of the latest setAdvertisedRoutes that returned nil
    calls,          \* the last two completed UpdateRoutes calls
    \* WireGuardClient and its healthCheck goroutine
    hcPc,                 \* "probe0" | "select" | "probe" | "sleep" | "exit"
    consecutiveFailures,  \* wg.consecutiveFailures
    failureCount,         \* wg.failureCount
    ctxDone,              \* wg.ctx has been cancelled
    dev,                  \* wg.dev: "up" | "down" | "closed"
    events,               \* probe results and restarts, in the order they happened
    \* Proxy.handleConnection, one invocation per inbound connection
    hPc,            \* "accept" | "dial" | "select" | "returned"
    exitPath,       \* "none" | "dialerr" | "done" | "timeout"
    pumpCS,         \* the client->server copy goroutine: "none" | "copy" | "done"
    pumpSC,         \* the server->client copy goroutine: "none" | "copy" | "done"
    doneCh,         \* the done channel has been closed
    clientCloses,   \* number of clientConn.Close() calls
    serverCloses,   \* number of serverConn.Close() calls
    timer,          \* the time.After timer of the select: "unarmed" | "armed" | "fired"
    \* StartPeriodicResolver and the cycle (resolveAndUpdate) it is running
    rsPc,            \* "lookup" | "resolved" | "update" | "select" | "exit"
    lookups,         \* results of this cycle's LookupIP calls, one per domain so far
    ipMap,           \* resolveDomains' ipMap (its keys)
    prefixes,        \* what resolveDomains returned
    tickPending,     \* a tick is waiting in ticker.C
    mainCtxDone,     \* main's ctx has been cancelled
    cyclesInFlight,  \* resolveAndUpdate calls that have not returned
    cycleDeliveries, \* updateFunc calls made by the cycle in flight
    domains,         \* the --domains flag, a string as a sequence of characters
    wgPrivateKey,    \* the --wg-private-key flag
    wgPublicKey,     \* the --wg-public-key flag
    wgPresharedKey,  \* the --wg-preshared-key flag
    wgEndpoint,      \* the --wg-endpoint flag
    mainPc,          \* where main is
    domainList,      \* what parseDomains returned
    device,          \* the device of createNetTUN: "none" | "down" | "up" | "closed"
    wgErr,           \* why NewWireGuardClient returned an error: "" | "tun" | "config" | "ipc"
    started,         \* what has been started: "health", "node", "resolver", "proxy"
    probeResp,       \* how the request of checkConnectivity ended
    probeRes,        \* what checkConnectivity returned: "unset" | "success" | "failure"
    lastChunk        \* direction of the latest chunk a pump copied: "none" | "cs" | "sc"

diffVars  == <<tOld, tNew, tGot, tGotRev>>
routeVars == <<routes, oldRoutes, urPc, urArg, lastPushed, calls>>
healthVars == <<hcPc, consecutiveFailures, failureCount, ctxDone, dev, events>>
relayVars == <<hPc, exitPath, pumpCS, pumpSC, doneCh, clientCloses, serverCloses, timer>>
probeVars == <<probeResp, probeRes>>
trafficVars == <<lastChunk>>
startupVars ==
    <<domains, wgPrivateKey, wgPublicKey, wgPresharedKey, wgEndpoint, mainPc, domainList,
      device, wgErr, started>>
resolverVars ==
    <<rsPc, lookups, ipMap, prefixes, tickPending, mainCtxDone, cyclesInFlight,
      cycleDeliveries>>

\* ------------------------------------------------------------------------
\* routesDifferent as a function under test
\* ------------------------------------------------------------------------
DiffInit ==
    /\ tOld \in RouteLists
    /\ tNew \in RouteLists
    /\ tGot = "unset"
    /\ tGotRev = "unset"

DiffIdle ==
    /\ tOld = <<>>
    /\ tNew = <<>>
    /\ tGot = "unset"
    /\ tGotRev = "unset"

\* tn := &TailscaleNode{routes: tOld}; got := tn.routesDifferent(tNew)
TestRoutesDifferent ==
    /\ tGot = "unset"
    /\ tGot' = Verdict(routesDifferent(tOld, tNew))
    /\ UNCHANGED <<tOld, tNew, tGotRev>>

\* tn := &TailscaleNode{routes: tNew}; got := tn.routesDifferent(tOld)
TestRoutesDifferentRev ==
    /\ tGotRev = "unset"
    /\ tGotRev' = Verdict(routesDifferent(tNew, tOld))
    /\ UNCHANGED <<tOld, tNew, tGot>>

\* ------------------------------------------------------------------------
\* The route reconciler: TailscaleNode.UpdateRoutes (tsnet.go:81-98)
\* ------------------------------------------------------------------------
\* what resolveDomains can deliver: one prefix per key of ipMap, so no
\* prefix is repeated (tsnet.go:171-182)
ResolvedLists == {s \in SeqsUpTo(HostPrefixes, MaxRoutes) : IsDupFree(s)}

RoutesInit ==
    /\ routes = <<>>
    /\ oldRoutes = <<>>
    /\ urPc = "idle"
    /\ urArg = <<>>
    /\ lastPushed = <<>>
    /\ calls = <<>>

\* the log keeps the two most recent completed calls
Logged(log, rec) == IF Len(log) < 2 THEN Append(log, rec) ELSE <<log[2], rec>>

\* lines 82-85: no difference, return without touching anything
UpdateRoutes_Unchanged(newRoutes) ==
    /\ urPc = "idle"
    /\ ~routesDifferent(routes, newRoutes)
    /\ calls' = Logged(calls, [arg |-> newRoutes, before |-> routes, outcome |-> "skip"])
    /\ UNCHANGED <<routes, oldRoutes, urPc, urArg, lastPushed>>

\* lines 87-91: remember the old list, adopt the new one, start the push
UpdateRoutes_Adopt(newRoutes) ==
    /\ urPc = "idle"
    /\ routesDifferent(routes, newRoutes)
    /\ oldRoutes' = routes
    /\ routes' = newRoutes
    /\ urArg' = newRoutes
    /\ urPc' = "push"
    /\ UNCHANGED <<lastPushed, calls>>

\* lines 91, 97: setAdvertisedRoutes returned nil
UpdateRoutes_PushOk ==
    /\ urPc = "push"
    /\ lastPushed' = urArg
    /\ calls' = Logged(calls, [arg |-> urArg, before |-> oldRoutes, outcome |-> "ok"])
    /\ urPc' = "idle"
    /\ oldRoutes' = <<>>
    /\ urArg' = <<>>
    /\ UNCHANGED routes

\* mutant: the rollback of line 93 is left out
UpdateRoutes_PushFailed_NoRollback ==
    /\ urPc = "push"
    /\ calls' = Logged(calls, [arg |-> urArg, before |-> oldRoutes, outcome |-> "fail"])
    /\ urPc' = "idle"
    /\ oldRoutes' = <<>>
    /\ urArg' = <<>>
    /\ UNCHANGED <<routes, lastPushed>>

\* lines 91-95: setAdvertisedRoutes returned an error, roll back
UpdateRoutes_PushFailed ==
    /\ urPc = "push"
    /\ routes' = oldRoutes
    /\ calls' = Logged(calls, [arg |-> urArg, before |-> oldRoutes, outcome |-> "fail"])
    /\ urPc' = "idle"
    /\ oldRoutes' = <<>>
    /\ urArg' = <<>>
    /\ UNCHANGED lastPushed

\* ------------------------------------------------------------------------
\* The link health monitor: WireGuardClient.healthCheck, restartDevice, Close
\* ------------------------------------------------------------------------
RestartThreshold == 3

\* state once NewWireGuardClient has returned: the device is up
\* (createNetTUN) and the healthCheck goroutine is in its first probe
HealthInit ==
    /\ hcPc = "probe0"
    /\ consecutiveFailures = 0
    /\ failureCount = 0
    /\ ctxDone = FALSE
    /\ dev = "up"
    /\ events = <<>>

ProbeCount == Cardinality({i \in 1..Len(events) : events[i] # "restart"})

\* checkConnectivity: the request runs under wg.ctx, so it cannot succeed
\* once the context is cancelled
ProbeOutcomes == IF ctxDone THEN {FALSE} ELSE {TRUE, FALSE}

\* mutant: the restart waits for one failure more
ShouldRestart_After4(cf) == cf > RestartThreshold

\* line 96
ShouldRestart(cf) == cf >= RestartThreshold

\* device.Down / device.Up: a closed device stays closed
DevSet(want) == IF dev = "closed" THEN "closed" ELSE want

\* mutant: a failure of the first probe is not counted
healthCheck_FirstProbe_Uncounted(ok) ==
    /\ hcPc = "probe0"
    /\ ok \in ProbeOutcomes
    /\ events' = Append(events, IF ok THEN "ok" ELSE "fail")
    /\ hcPc' = "select"
    /\ UNCHANGED <<consecutiveFailures, failureCount, ctxDone, dev>>

\* lines 80-85: the probe made before the loop
healthCheck_FirstProbe(ok) ==
    /\ hcPc = "probe0"
    /\ ok \in ProbeOutcomes
    /\ IF ok
       THEN /\ consecutiveFailures' = 0
            /\ UNCHANGED failureCount
       ELSE /\ consecutiveFailures' = consecutiveFailures + 1
            /\ failureCount' = failureCount + 1
    /\ events' = Append(events, IF ok THEN "ok" ELSE "fail")
    /\ hcPc' = "select"
    /\ UNCHANGED <<ctxDone, dev>>

\* lines 88-90: the select takes the ctx.Done case
healthCheck_Done ==
    /\ hcPc = "select"
    /\ ctxDone
    /\ hcPc' = "exit"
    /\ UNCHANGED <<consecutiveFailures, failureCount, ctxDone, dev, events>>

\* lines 88, 91-92: the select takes the ticker case and starts a probe; a
\* tick may be pending when the context is cancelled, and select then picks
\* either case
healthCheck_Tick ==
    /\ hcPc = "select"
    /\ ProbeCount < MaxProbes
    /\ hcPc' = "probe"
    /\ UNCHANGED <<consecutiveFailures, failureCount, ctxDone, dev, events>>

\* lines 92-104, and restartDevice up to its sleep (lines 110-114)
healthCheck_Probe(ok) ==
    /\ hcPc = "probe"
    /\ ok \in ProbeOutcomes
    /\ IF ok
       THEN /\ consecutiveFailures' = 0
            /\ events' = Append(events, "ok")
            /\ hcPc' = "select"
            /\ UNCHANGED <<failureCount, dev>>
       ELSE /\ consecutiveFailures' = consecutiveFailures + 1
            /\ failureCount' = failureCount + 1
            /\ IF ShouldRestart(consecutiveFailures + 1)
               THEN /\ events' = events \o <<"fail", "restart">>
                    /\ dev' = DevSet("down")
                    /\ hcPc' = "sleep"
               ELSE /\ events' = Append(events, "fail")
                    /\ hcPc' = "select"
                    /\ UNCHANGED dev
    /\ UNCHANGED ctxDone

\* mutant: the counter is reset only when Up worked
restartDevice_Up_ResetOnSuccess ==
    /\ hcPc = "sleep"
    /\ dev' = DevSet("up")
    /\ consecutiveFailures' = IF dev = "closed" THEN consecutiveFailures ELSE 0
    /\ hcPc' = "select"
    /\ UNCHANGED <<failureCount, ctxDone, events>>

\* mutant: the restart clears both counters
restartDevice_Up_ClearsTotal ==
    /\ hcPc = "sleep"
    /\ dev' = DevSet("up")
    /\ consecutiveFailures' = 0
    /\ failureCount' = 0
    /\ hcPc' = "select"
    /\ UNCHANGED <<ctxDone, events>>

\* lines 114-120: the sleep is over, Up, reset of the counter
restartDevice_Up ==
    /\ hcPc = "sleep"
    /\ dev' = DevSet("up")
    /\ consecutiveFailures' = 0
    /\ hcPc' = "select"
    /\ UNCHANGED <<failureCount, ctxDone, events>>

\* WireGuardClient.Close, lines 160-164, called by main on shutdown
Close ==
    /\ ~ctxDone
    /\ ctxDone' = TRUE
    /\ dev' = "closed"
    /\ UNCHANGED <<hcPc, consecutiveFailures, failureCount, events>>

\* ------------------------------------------------------------------------
\* The connection relay: Proxy.handleConnection (proxy.go:37-97)
\* ------------------------------------------------------------------------
Conns == 1..MaxConns

\* no inbound connection has been handed to the handler yet
RelayInit ==
    /\ hPc = [c \in Conns |-> "accept"]
    /\ exitPath = [c \in Conns |-> "none"]
    /\ pumpCS = [c \in Conns |-> "none"]
    /\ pumpSC = [c \in Conns |-> "none"]
    /\ doneCh = [c \in Conns |-> FALSE]
    /\ clientCloses = [c \in Conns |-> 0]
    /\ serverCloses = [c \in Conns |-> 0]
    /\ timer = [c \in Conns |-> "unarmed"]

\* lines 37-48: the fallback handler is invoked and dials through the tunnel
handleConnection_Dial(c) ==
    /\ hPc[c] = "accept"
    /\ hPc' = [hPc EXCEPT ![c] = "dial"]
    /\ UNCHANGED <<exitPath, pumpCS, pumpSC, doneCh, clientCloses, serverCloses, timer>>

\* mutant: the deferred serverConn.Close is registered before the error check
handleConnection_DialFailed_ClosesServer(c) ==
    /\ hPc[c] = "dial"
    /\ hPc' = [hPc EXCEPT ![c] = "returned"]
    /\ exitPath' = [exitPath EXCEPT ![c] = "dialerr"]
    /\ clientCloses' = [clientCloses EXCEPT ![c] = @ + 1]
    /\ serverCloses' = [serverCloses EXCEPT ![c] = @ + 1]
    /\ UNCHANGED <<pumpCS, pumpSC, doneCh, timer>>

\* lines 49-52 and the deferred clientConn.Close of line 38
handleConnection_DialFailed(c) ==
    /\ hPc[c] = "dial"
    /\ hPc' = [hPc EXCEPT ![c] = "returned"]
    /\ exitPath' = [exitPath EXCEPT ![c] = "dialerr"]
    /\ clientCloses' = [clientCloses EXCEPT ![c] = @ + 1]
    /\ UNCHANGED <<pumpCS, pumpSC, doneCh, serverCloses, timer>>

\* lines 53-92: the dial succeeded, both copy goroutines are started and
\* the handler waits in its select, whose time.After arms the timer
handleConnection_StartPumps(c) ==
    /\ hPc[c] = "dial"
    /\ hPc' = [hPc EXCEPT ![c] = "select"]
    /\ pumpCS' = [pumpCS EXCEPT ![c] = "copy"]
    /\ pumpSC' = [pumpSC EXCEPT ![c] = "copy"]
    /\ timer' = [timer EXCEPT ![c] = "armed"]
    /\ UNCHANGED <<exitPath, doneCh, clientCloses, serverCloses>>

\* lines 71-78: io.Copy(serverConn, clientConn) returned (end of stream or
\* error); this goroutine does not touch done
pumpCS_Finish(c) ==
    /\ pumpCS[c] = "copy"
    /\ pumpCS' = [pumpCS EXCEPT ![c] = "done"]
    /\ UNCHANGED <<hPc, exitPath, pumpSC, doneCh, clientCloses, serverCloses, timer>>

\* lines 80-88: io.Copy(clientConn, serverConn) returned; the deferred
\* close(done) runs
pumpSC_Finish(c) ==
    /\ pumpSC[c] = "copy"
    /\ pumpSC' = [pumpSC EXCEPT ![c] = "done"]
    /\ doneCh' = [doneCh EXCEPT ![c] = TRUE]
    /\ UNCHANGED <<hPc, exitPath, pumpCS, clientCloses, serverCloses, timer>>

\* mutant: the handler returns on <-done without closing the connections
handleConnection_Done_NoClose(c) ==
    /\ hPc[c] = "select"
    /\ doneCh[c]
    /\ hPc' = [hPc EXCEPT ![c] = "returned"]
    /\ exitPath' = [exitPath EXCEPT ![c] = "done"]
    /\ UNCHANGED <<pumpCS, pumpSC, doneCh, timer, clientCloses, serverCloses>>

\* lines 90-91, 97: the select takes <-done; the deferred calls close
\* serverConn (lines 53-56) and clientConn (line 38)
handleConnection_Done(c) ==
    /\ hPc[c] = "select"
    /\ doneCh[c]
    /\ hPc' = [hPc EXCEPT ![c] = "returned"]
    /\ exitPath' = [exitPath EXCEPT ![c] = "done"]
    /\ serverCloses' = [serverCloses EXCEPT ![c] = @ + 1]
    /\ clientCloses' = [clientCloses EXCEPT ![c] = @ + 1]
    /\ UNCHANGED <<pumpCS, pumpSC, doneCh, timer>>

\* mutant: the select has no timer case
handleConnection_Timeout_Never(c) ==
    /\ FALSE
    /\ UNCHANGED relayVars

\* lines 92-97: the select takes <-time.After(5 * time.Minute); both
\* connections are closed at lines 94-95 and again by the deferred calls
handleConnection_Timeout(c) ==
    /\ hPc[c] = "select"
    /\ timer[c] = "armed"
    /\ timer' = [timer EXCEPT ![c] = "fired"]
    /\ hPc' = [hPc EXCEPT ![c] = "returned"]
    /\ exitPath' = [exitPath EXCEPT ![c] = "timeout"]
    /\ clientCloses' = [clientCloses EXCEPT ![c] = @ + 2]
    /\ serverCloses' = [serverCloses EXCEPT ![c] = @ + 2]
    /\ UNCHANGED <<pumpCS, pumpSC, doneCh>>

\* ------------------------------------------------------------------------
\* The resolver: StartPeriodicResolver, resolveAndUpdate, resolveDomains
\* (tsnet.go:136-193), started by main with tsNode.UpdateRoutes (main.go:98)
\* ------------------------------------------------------------------------
Domains == <<"a.example", "b.example">>

\* net.IP values LookupIP returns: an IPv4 address comes as a 4-byte slice
\* (DNS answers) or as a 16-byte slice (hosts file entries, IP literals)
IPs ==
    { [addr |-> "10.0.0.5", len |-> 4],
      [addr |-> "10.0.0.5", len |-> 16],
      [addr |-> "2001:db8::1", len |-> 16] }

\* the IPv4-mapped IPv6 address of an IPv4 address
Mapped(a) ==
    CASE a = "10.0.0.5" -> "::ffff:10.0.0.5"
      [] a = "192.168.1.7" -> "::ffff:192.168.1.7"
      [] OTHER -> a

\* netip.AddrFromSlice: a 4-byte slice is an IPv4 address, a 16-byte slice
\* an IPv6 address (IPv4-mapped if it holds an IPv4 address, and not
\* unmapped), any other length is refused
AddrFromSlice(ip) ==
    CASE ip.len = 4 -> [ok |-> TRUE, addr |-> ip.addr]
      [] ip.len = 16 -> [ok |-> TRUE, addr |-> Mapped(ip.addr)]
      [] OTHER -> [ok |-> FALSE, addr |-> ""]

Failed == [err |-> TRUE, ips |-> {}]

\* what one LookupIP call can return: an error, or one address
LookupOutcomes == {Failed} \cup {[err |-> FALSE, ips |-> {ip}] : ip \in IPs}

\* LookupIP runs under ctx: it fails once ctx is cancelled
LookupOutcomesNow == IF mainCtxDone THEN {Failed} ELSE LookupOutcomes

\* the orders in which ranging over a map can yield its keys
Orderings(S) == {s \in [1..Cardinality(S) -> S] : Range(s) = S}

\* state when main has started the goroutine: the ticker is created and the
\* first resolveAndUpdate is looking up the first domain
ResolverInit ==
    /\ rsPc = "lookup"
    /\ lookups = <<>>
    /\ ipMap = {}
    /\ prefixes = <<>>
    /\ tickPending = FALSE
    /\ mainCtxDone = FALSE
    /\ cyclesInFlight = 1
    /\ cycleDeliveries = 0

\* lines 162-168: the addresses of one lookup are added to ipMap
AddToMap(m, ips) ==
    m \cup {AddrFromSlice(ip).addr : ip \in {i \in ips : AddrFromSlice(i).ok}}

\* lines 155-182: one LookupIP returns; a failure is logged and skipped;
\* after the last domain the prefixes are built from the keys of ipMap
resolveDomains_Lookup(out) ==
    /\ rsPc = "lookup"
    /\ out \in LookupOutcomesNow
    /\ lookups' = Append(lookups, out)
    /\ LET m == IF out.err THEN ipMap ELSE AddToMap(ipMap, out.ips)
       IN  IF Len(lookups) + 1 = Len(Domains)
           THEN /\ rsPc' = "resolved"
                /\ prefixes' \in Orderings({HostPrefix(a) : a \in m})
                /\ ipMap' = {}
           ELSE /\ rsPc' = "lookup"
                /\ ipMap' = m
                /\ UNCHANGED prefixes
    /\ UNCHANGED <<tickPending, mainCtxDone, cyclesInFlight, cycleDeliveries>>

\* resolveAndUpdate and the loop go back to the select
CycleReturns ==
    /\ rsPc' = "select"
    /\ lookups' = <<>>
    /\ ipMap' = {}
    /\ prefixes' = <<>>
    /\ cyclesInFlight' = cyclesInFlight - 1
    /\ cycleDeliveries' = 0
    /\ UNCHANGED <<tickPending, mainCtxDone>>

\* lines 186-192 with tsnet.go:82-85: updateFunc finds no difference
resolveAndUpdate_Unchanged ==
    /\ rsPc = "resolved"
    /\ UpdateRoutes_Unchanged(prefixes)
    /\ CycleReturns

\* lines 186-192 with tsnet.go:87-91: updateFunc adopts the list and pushes
resolveAndUpdate_Adopt ==
    /\ rsPc = "resolved"
    /\ UpdateRoutes_Adopt(prefixes)
    /\ rsPc' = "update"
    /\ cycleDeliveries' = cycleDeliveries + 1
    /\ lookups' = <<>>
    /\ prefixes' = <<>>
    /\ UNCHANGED <<ipMap, tickPending, mainCtxDone, cyclesInFlight>>

\* the push returned nil: UpdateRoutes and the cycle return
resolveAndUpdate_PushOk ==
    /\ rsPc = "update"
    /\ UpdateRoutes_PushOk
    /\ CycleReturns

\* mutant: a failed push ends the resolver loop
resolveAndUpdate_PushFailed_Exits ==
    /\ rsPc = "update"
    /\ UpdateRoutes_PushFailed
    /\ rsPc' = "exit"
    /\ lookups' = <<>>
    /\ ipMap' = {}
    /\ prefixes' = <<>>
    /\ cyclesInFlight' = cyclesInFlight - 1
    /\ cycleDeliveries' = 0
    /\ UNCHANGED <<tickPending, mainCtxDone>>

\* the push returned an error: rollback, UpdateRoutes and the cycle return
resolveAndUpdate_PushFailed ==
    /\ rsPc = "update"
    /\ UpdateRoutes_PushFailed
    /\ CycleReturns

\* the ticker fires: ticker.C holds at most one tick, further ones are dropped
TickerFires ==
    /\ rsPc # "exit"
    /\ ~tickPending
    /\ tickPending' = TRUE
    /\ UNCHANGED <<rsPc, lookups, ipMap, prefixes, mainCtxDone, cyclesInFlight,
                   cycleDeliveries>>

\* mutant: every tick starts its cycle in a goroutine of its own
StartPeriodicResolver_Tick_Spawns ==
    /\ rsPc # "exit"
    /\ tickPending
    /\ tickPending' = FALSE
    /\ rsPc' = "lookup"
    /\ lookups' = <<>>
    /\ ipMap' = {}
    /\ prefixes' = <<>>
    /\ cyclesInFlight' = cyclesInFlight + 1
    /\ cycleDeliveries' = 0
    /\ UNCHANGED mainCtxDone

\* lines 142-147: the select takes the tick and runs the next cycle inline
StartPeriodicResolver_Tick ==
    /\ rsPc = "select"
    /\ tickPending
    /\ tickPending' = FALSE
    /\ rsPc' = "lookup"
    /\ lookups' = <<>>
    /\ ipMap' = {}
    /\ prefixes' = <<>>
    /\ cyclesInFlight' = cyclesInFlight + 1
    /\ cycleDeliveries' = 0
    /\ UNCHANGED mainCtxDone

\* lines 142-145: the select takes ctx.Done and the loop returns
StartPeriodicResolver_Done ==
    /\ rsPc = "select"
    /\ mainCtxDone
    /\ rsPc' = "exit"
    /\ UNCHANGED <<lookups, ipMap, prefixes, tickPending, mainCtxDone, cyclesInFlight,
                   cycleDeliveries>>

\* main.go:59-63: a signal arrives and cancel() is called
Cancel ==
    /\ ~mainCtxDone
    /\ mainCtxDone' = TRUE
    /\ UNCHANGED <<rsPc, lookups, ipMap, prefixes, tickPending, cyclesInFlight,
                   cycleDeliveries>>

\* ------------------------------------------------------------------------
\* Startup: main, validateFlags, parseDomains (main.go) and
\* NewWireGuardClient, createNetTUN, buildConfig (part_001)
\* ------------------------------------------------------------------------
\* The characters of a --domains value.  "VT" stands for a vertical tab, a
\* character that unicode.IsSpace accepts and the regexp class \s does not.
Chars == {"a", "b", ",", " ", "\t", "VT"}

\* \s of regexp: [\t\n\f\r ]
RegexSpace == {" ", "\t"}

\* unicode.IsSpace, which strings.TrimSpace uses: \t \n \v \f \r, space,
\* U+0085, U+00A0 and the other White_Space characters
UnicodeSpace == {" ", "\t", "VT"}

Strings == SeqsUpTo(Chars, MaxStr)

\* whitespaceRegex.ReplaceAllString(s, ","): every maximal run of \s
\* characters becomes one comma
RECURSIVE ReplaceAllString(_)
ReplaceAllString(s) ==
    IF s = <<>> THEN <<>>
    ELSE IF Head(s) \in RegexSpace
         THEN IF Len(s) > 1 /\ s[2] \in RegexSpace
              THEN ReplaceAllString(Tail(s))
              ELSE <<",">> \o ReplaceAllString(Tail(s))
         ELSE <<Head(s)>> \o ReplaceAllString(Tail(s))

\* strings.Split with one-character separators: the pieces between
\* separators, empty ones included
RECURSIVE Split(_, _)
Split(s, seps) ==
    IF \A i \in 1..Len(s) : s[i] \notin seps
    THEN <<s>>
    ELSE LET i == CHOOSE k \in 1..Len(s) :
                      s[k] \in seps /\ \A j \in 1..(k - 1) : s[j] \notin seps
         IN  <<SubSeq(s, 1, i - 1)>> \o Split(SubSeq(s, i + 1, Len(s)), seps)

RECURSIVE TrimLeft(_)
TrimLeft(s) ==
    IF s # <<>> /\ Head(s) \in UnicodeSpace THEN TrimLeft(Tail(s)) ELSE s

RECURSIVE TrimRight(_)
TrimRight(s) ==
    IF s # <<>> /\ s[Len(s)] \in UnicodeSpace THEN TrimRight(SubSeq(s, 1, Len(s) - 1)) ELSE s

\* strings.TrimSpace
TrimSpace(s) == TrimRight(TrimLeft(s))

NonEmpty(parts) == SelectSeq(parts, LAMBDA d : d # <<>>)

\* main.go:125-136
parseDomains(domainsStr) ==
    LET parts == Split(ReplaceAllString(domainsStr), {","})
    IN  NonEmpty([i \in 1..Len(parts) |-> TrimSpace(parts[i])])

\* the --domains values startup is run with
DomainFlags == {<<>>, <<",">>, <<" ">>, <<"a">>, <<"a", ",", "b">>, <<"a", " ", "b">>}

\* key flags: empty, not base64, base64 of 4 bytes, base64 of 32 bytes
Keys == {"", "not-base64", "YWJjZA==", "valid32"}

\* base64.StdEncoding.DecodeString on these keys
DecodeString(k) ==
    CASE k = "" -> [err |-> FALSE, len |-> 0]
      [] k = "not-base64" -> [err |-> TRUE, len |-> 0]
      [] k = "YWJjZA==" -> [err |-> FALSE, len |-> 4]
      [] OTHER -> [err |-> FALSE, len |-> 32]

\* endpoint flags: empty, without a port, an IP literal with a port, a
\* host name with a port
Endpoints == {"", "invalid-endpoint", "192.168.1.1:51820", "vpn.example.com:51820"}

\* net.SplitHostPort on these endpoints
SplitHostPort(e) ==
    CASE e = "192.168.1.1:51820" -> [err |-> FALSE, host |-> "192.168.1.1", isIP |-> TRUE]
      [] e = "vpn.example.com:51820" -> [err |-> FALSE, host |-> "vpn.example.com", isIP |-> FALSE]
      [] OTHER -> [err |-> TRUE, host |-> "", isIP |-> FALSE]

\* part_001:237-270; lookupOk: net.LookupIP of the host succeeds with an address
resolveEndpoint(e, lookupOk) ==
    LET hp == SplitHostPort(e)
    IN  IF hp.err THEN [err |-> TRUE]
        ELSE IF hp.isIP THEN [err |-> FALSE]
        ELSE [err |-> ~lookupOk]

KeyOk(k) == ~DecodeString(k).err /\ DecodeString(k).len = 32

\* mutant: the preshared key is taken as it is
buildConfig_PresharedUnchecked(priv, pub, psk, e, lookupOk) ==
    IF ~KeyOk(priv) THEN [err |-> TRUE]
    ELSE IF ~KeyOk(pub) THEN [err |-> TRUE]
    ELSE resolveEndpoint(e, lookupOk)

\* part_001:309-366, as far as its error result goes
buildConfig(priv, pub, psk, e, lookupOk) ==
    IF ~KeyOk(priv) THEN [err |-> TRUE]
    ELSE IF ~KeyOk(pub) THEN [err |-> TRUE]
    ELSE IF psk # "" /\ ~KeyOk(psk) THEN [err |-> TRUE]
    ELSE resolveEndpoint(e, lookupOk)

\* main.go:109-123
validateFlags ==
    IF domains = <<>> THEN [err |-> TRUE]
    ELSE IF wgPrivateKey = "" THEN [err |-> TRUE]
    ELSE IF wgPublicKey = "" THEN [err |-> TRUE]
    ELSE IF wgEndpoint = "" THEN [err |-> TRUE]
    ELSE [err |-> FALSE]

StartupInit ==
    /\ domains \in DomainFlags
    /\ wgPrivateKey \in Keys
    /\ wgPublicKey \in Keys
    /\ wgPresharedKey \in Keys
    /\ wgEndpoint \in Endpoints
    /\ mainPc = "validate"
    /\ domainList = <<>>
    /\ device = "none"
    /\ wgErr = ""
    /\ started = {}

\* no process: the state of the flags before main runs
StartupIdle ==
    /\ domains = <<>>
    /\ wgPrivateKey = ""
    /\ wgPublicKey = ""
    /\ wgPresharedKey = ""
    /\ wgEndpoint = ""
    /\ mainPc = "idle"
    /\ domainList = <<>>
    /\ device = "none"
    /\ wgErr = ""
    /\ started = {}

KeepFlags == UNCHANGED <<domains, wgPrivateKey, wgPublicKey, wgPresharedKey, wgEndpoint>>

\* main.go:45-48
main_validateFlags ==
    /\ mainPc = "validate"
    /\ mainPc' = IF validateFlags.err THEN "aborted" ELSE "parse"
    /\ KeepFlags
    /\ UNCHANGED <<domainList, device, wgErr, started>>

\* main.go:50-51
main_parseDomains ==
    /\ mainPc = "parse"
    /\ domainList' = parseDomains(domains)
    /\ mainPc' = "tun"
    /\ KeepFlags
    /\ UNCHANGED <<device, wgErr, started>>

\* part_001:274-289: the addresses are parsed, the TUN and the device are
\* created; tunOk: none of these failed.  On failure NewWireGuardClient
\* returns the error (lines 37-40) and main exits (main.go:78-81).
createNetTUN_NewDevice(tunOk) ==
    /\ mainPc = "tun"
    /\ IF tunOk
       THEN /\ device' = "down"
            /\ mainPc' = "config"
            /\ UNCHANGED wgErr
       ELSE /\ wgErr' = "tun"
            /\ mainPc' = "aborted"
            /\ UNCHANGED device
    /\ KeepFlags
    /\ UNCHANGED <<domainList, started>>

\* part_001:291-305: buildConfig, IpcSet and Up; on an error the device is
\* closed, NewWireGuardClient returns the error (lines 37-40) and main
\* exits (main.go:78-81)
createNetTUN_Configure(lookupOk, ipcOk) ==
    /\ mainPc = "config"
    /\ LET config == buildConfig(wgPrivateKey, wgPublicKey, wgPresharedKey, wgEndpoint,
                                 lookupOk)
       IN  IF config.err
           THEN /\ device' = "closed"
                /\ wgErr' = "config"
                /\ mainPc' = "aborted"
           ELSE IF ~ipcOk
           THEN /\ device' = "closed"
                /\ wgErr' = "ipc"
                /\ mainPc' = "aborted"
           ELSE /\ device' = "up"
                /\ mainPc' = "client"
                /\ UNCHANGED wgErr
    /\ KeepFlags
    /\ UNCHANGED <<domainList, started>>

\* part_001:42-62: the client is built and its health check goroutine started
NewWireGuardClient_Return ==
    /\ mainPc = "client"
    /\ started' = started \cup {"health"}
    /\ mainPc' = "node"
    /\ KeepFlags
    /\ UNCHANGED <<domainList, device, wgErr>>

\* main.go:84-96: NewTailscaleNode and tsNode.Start; an error exits the process
main_StartNode(ok) ==
    /\ mainPc = "node"
    /\ IF ok
       THEN /\ started' = started \cup {"node"}
            /\ mainPc' = "spawn"
       ELSE /\ mainPc' = "aborted"
            /\ UNCHANGED started
    /\ KeepFlags
    /\ UNCHANGED <<domainList, device, wgErr>>

\* main.go:98: the resolver goroutine is started
main_StartResolver ==
    /\ mainPc = "spawn"
    /\ started' = started \cup {"resolver"}
    /\ mainPc' = "proxy"
    /\ KeepFlags
    /\ UNCHANGED <<domainList, device, wgErr>>

\* main.go:100-103 with proxy.go:29-35: the fallback TCP handler is registered
Proxy_Start ==
    /\ mainPc = "proxy"
    /\ started' = started \cup {"proxy"}
    /\ mainPc' = "running"
    /\ KeepFlags
    /\ UNCHANGED <<domainList, device, wgErr>>

\* a complete configuration
BootInit ==
    /\ StartupInit
    /\ domains = <<"a", ",", "b">>
    /\ wgPrivateKey = "valid32"
    /\ wgPublicKey = "valid32"
    /\ wgPresharedKey = ""
    /\ wgEndpoint = "192.168.1.1:51820"

\* parseDomains as a function under test (main_test.go:8-88)
ParseInit ==
    /\ domains \in Strings
    /\ wgPrivateKey = ""
    /\ wgPublicKey = ""
    /\ wgPresharedKey = ""
    /\ wgEndpoint = ""
    /\ mainPc = "test"
    /\ domainList = <<>>
    /\ device = "none"
    /\ wgErr = ""
    /\ started = {}

TestParseDomains ==
    /\ mainPc = "test"
    /\ domainList' = parseDomains(domains)
    /\ mainPc' = "tested"
    /\ KeepFlags
    /\ UNCHANGED <<device, wgErr, started>>

\* ------------------------------------------------------------------------
\* checkConnectivity as a function of how its request ends (part_001:124-157)
\* ------------------------------------------------------------------------
\* HTTP status codes
StatusCodes == 100..599

\* client.Do returns an error (dial, TLS, transport), the 10 s timeout of
\* lines 131 and 134 expires, or a response with a status code arrives
Responses ==
    {[kind |-> "error", code |-> 0], [kind |-> "timeout", code |-> 0]}
        \cup {[kind |-> "status", code |-> n] : n \in StatusCodes}

\* lines 143-156
checkConnectivity(resp) ==
    IF resp.kind # "status" THEN FALSE
    ELSE resp.code = 204 \/ resp.code = 200

ProbeInit ==
    /\ probeResp \in Responses
    /\ probeRes = "unset"

ProbeIdle ==
    /\ probeResp = [kind |-> "error", code |-> 0]
    /\ probeRes = "unset"

TestCheckConnectivity ==
    /\ probeRes = "unset"
    /\ probeRes' = IF checkConnectivity(probeResp) THEN "success" ELSE "failure"
    /\ UNCHANGED probeResp

\* ------------------------------------------------------------------------
\* Traffic through the pumps of a relay (proxy.go:71-88)
\* ------------------------------------------------------------------------
TrafficInit == lastChunk = [c \in Conns |-> "none"]

\* io.Copy of line 72 moves a chunk from the client to the server
pumpCS_Copy(c) ==
    /\ pumpCS[c] = "copy"
    /\ clientCloses[c] = 0
    /\ serverCloses[c] = 0
    /\ lastChunk' = [lastChunk EXCEPT ![c] = "cs"]
    /\ UNCHANGED relayVars

\* mutant: a chunk from the server re-arms the timer of the select
pumpSC_Copy_Rearms(c) ==
    /\ pumpSC[c] = "copy"
    /\ clientCloses[c] = 0
    /\ serverCloses[c] = 0
    /\ lastChunk' = [lastChunk EXCEPT ![c] = "sc"]
    /\ timer' = [timer EXCEPT ![c] = "rearmed"]
    /\ UNCHANGED <<hPc, exitPath, pumpCS, pumpSC, doneCh, clientCloses, serverCloses>>

\* io.Copy of line 82 moves a chunk from the server to the client
pumpSC_Copy(c) ==
    /\ pumpSC[c] = "copy"
    /\ clientCloses[c] = 0
    /\ serverCloses[c] = 0
    /\ lastChunk' = [lastChunk EXCEPT ![c] = "sc"]
    /\ UNCHANGED relayVars

\* ------------------------------------------------------------------------
\* Specifications
\* ------------------------------------------------------------------------
vars ==
    <<diffVars, routeVars, healthVars, relayVars, resolverVars, startupVars, probeVars,
      trafficVars>>

DiffOnly ==
    UNCHANGED <<routeVars, healthVars, relayVars, resolverVars, startupVars, probeVars, trafficVars>>
RoutesOnly ==
    UNCHANGED <<diffVars, healthVars, relayVars, resolverVars, startupVars, probeVars, trafficVars>>
HealthOnly ==
    UNCHANGED <<diffVars, routeVars, relayVars, resolverVars, startupVars, probeVars, trafficVars>>
RelayOnly ==
    UNCHANGED <<diffVars, routeVars, healthVars, resolverVars, startupVars, probeVars, trafficVars>>
\* the resolver's steps, some of which are steps of UpdateRoutes too
ResolverOnly ==
    UNCHANGED <<diffVars, healthVars, relayVars, startupVars, probeVars, trafficVars>>
KeepRoutes == UNCHANGED routeVars

InitDiff ==
    DiffInit /\ RoutesInit /\ HealthInit /\ RelayInit /\ ResolverInit /\ StartupIdle /\ ProbeIdle /\ TrafficInit

NextDiff ==
    \/ TestRoutesDifferent /\ DiffOnly
    \/ TestRoutesDifferentRev /\ DiffOnly

SpecDiff == InitDiff /\ [][NextDiff]_vars

InitRoutes ==
    DiffIdle /\ RoutesInit /\ HealthInit /\ RelayInit /\ ResolverInit /\ StartupIdle /\ ProbeIdle /\ TrafficInit

NextRoutes ==
    \/ \E r \in ResolvedLists : UpdateRoutes_Unchanged(r) /\ RoutesOnly
    \/ \E r \in ResolvedLists : UpdateRoutes_Adopt(r) /\ RoutesOnly
    \/ UpdateRoutes_PushOk /\ RoutesOnly
    \/ UpdateRoutes_PushFailed /\ RoutesOnly

SpecRoutes == InitRoutes /\ [][NextRoutes]_vars

InitHealth ==
    DiffIdle /\ RoutesInit /\ HealthInit /\ RelayInit /\ ResolverInit /\ StartupIdle /\ ProbeIdle /\ TrafficInit

NextHealth ==
    \/ \E ok \in BOOLEAN : healthCheck_FirstProbe(ok) /\ HealthOnly
    \/ healthCheck_Done /\ HealthOnly
    \/ healthCheck_Tick /\ HealthOnly
    \/ \E ok \in BOOLEAN : healthCheck_Probe(ok) /\ HealthOnly
    \/ restartDevice_Up /\ HealthOnly
    \/ Close /\ HealthOnly

SpecHealth == InitHealth /\ [][NextHealth]_vars

InitRelay ==
    DiffIdle /\ RoutesInit /\ HealthInit /\ RelayInit /\ ResolverInit /\ StartupIdle /\ ProbeIdle /\ TrafficInit

NextRelay ==
    \/ \E c \in Conns : handleConnection_Dial(c) /\ RelayOnly
    \/ \E c \in Conns : handleConnection_DialFailed(c) /\ RelayOnly
    \/ \E c \in Conns : handleConnection_StartPumps(c) /\ RelayOnly
    \/ \E c \in Conns : pumpCS_Finish(c) /\ RelayOnly
    \/ \E c \in Conns : pumpSC_Finish(c) /\ RelayOnly
    \/ \E c \in Conns : handleConnection_Done(c) /\ RelayOnly
    \/ \E c \in Conns : handleConnection_Timeout(c) /\ RelayOnly

SpecRelay == InitRelay /\ [][NextRelay]_vars

\* The handler goroutine is scheduled; the dial returns within its 10 s
\* context timeout (line 45); a closed done channel is received from; the
\* timer of line 92 fires.  Nothing is assumed about the peers: the pumps
\* may never finish.
RelayFairness ==
    \A c \in Conns :
        /\ WF_vars(handleConnection_DialFailed(c) /\ RelayOnly)
        /\ WF_vars(handleConnection_StartPumps(c) /\ RelayOnly)
        /\ WF_vars(handleConnection_Done(c) /\ RelayOnly)
        /\ WF_vars(handleConnection_Timeout(c) /\ RelayOnly)

FairSpecRelay == InitRelay /\ [][NextRelay]_vars /\ RelayFairness

InitResolver ==
    DiffIdle /\ RoutesInit /\ HealthInit /\ RelayInit /\ ResolverInit /\ StartupIdle /\ ProbeIdle /\ TrafficInit

NextResolver ==
    \/ \E out \in LookupOutcomes : resolveDomains_Lookup(out) /\ KeepRoutes /\ ResolverOnly
    \/ resolveAndUpdate_Unchanged /\ ResolverOnly
    \/ resolveAndUpdate_Adopt /\ ResolverOnly
    \/ resolveAndUpdate_PushOk /\ ResolverOnly
    \/ resolveAndUpdate_PushFailed /\ ResolverOnly
    \/ TickerFires /\ KeepRoutes /\ ResolverOnly
    \/ StartPeriodicResolver_Tick /\ KeepRoutes /\ ResolverOnly
    \/ StartPeriodicResolver_Done /\ KeepRoutes /\ ResolverOnly
    \/ Cancel /\ KeepRoutes /\ ResolverOnly

SpecResolver == InitResolver /\ [][NextResolver]_vars

\* The two periodic loops side by side, as main starts them (part_001:60,
\* main.go:98), with the shutdown of main: cancel() on a signal, then the
\* deferred wgClient.Close once main has seen ctx.Done.
LoopsOnly ==
    UNCHANGED <<diffVars, relayVars, startupVars, probeVars, trafficVars>>
KeepHealth == UNCHANGED healthVars
KeepResolver == UNCHANGED resolverVars

\* the lookups of this specification fail or return one IPv4 address
LoopLookups == {Failed, [err |-> FALSE, ips |-> {[addr |-> "10.0.0.5", len |-> 4]}]}

\* main.go:105-107 and the deferred call of line 82
main_Shutdown == mainCtxDone /\ Close

InitLoops ==
    DiffIdle /\ RoutesInit /\ HealthInit /\ RelayInit /\ ResolverInit /\ StartupIdle /\ ProbeIdle /\ TrafficInit

NextLoops ==
    \/ \E out \in LoopLookups : resolveDomains_Lookup(out) /\ KeepRoutes /\ KeepHealth /\ LoopsOnly
    \/ resolveAndUpdate_Unchanged /\ KeepHealth /\ LoopsOnly
    \/ resolveAndUpdate_Adopt /\ KeepHealth /\ LoopsOnly
    \/ resolveAndUpdate_PushOk /\ KeepHealth /\ LoopsOnly
    \/ resolveAndUpdate_PushFailed /\ KeepHealth /\ LoopsOnly
    \/ TickerFires /\ KeepRoutes /\ KeepHealth /\ LoopsOnly
    \/ StartPeriodicResolver_Tick /\ KeepRoutes /\ KeepHealth /\ LoopsOnly
    \/ StartPeriodicResolver_Done /\ KeepRoutes /\ KeepHealth /\ LoopsOnly
    \/ Cancel /\ KeepRoutes /\ KeepHealth /\ LoopsOnly
    \/ \E ok \in BOOLEAN : healthCheck_FirstProbe(ok) /\ KeepRoutes /\ KeepResolver /\ LoopsOnly
    \/ healthCheck_Done /\ KeepRoutes /\ KeepResolver /\ LoopsOnly
    \/ ProbeCount < LoopProbes /\ healthCheck_Tick /\ KeepRoutes /\ KeepResolver /\ LoopsOnly
    \/ \E ok \in BOOLEAN : healthCheck_Probe(ok) /\ KeepRoutes /\ KeepResolver /\ LoopsOnly
    \/ restartDevice_Up /\ KeepRoutes /\ KeepResolver /\ LoopsOnly
    \/ main_Shutdown /\ KeepRoutes /\ KeepResolver /\ LoopsOnly

SpecLoops == InitLoops /\ [][NextLoops]_vars

\* What the scheduling guarantees once the contexts are cancelled: a lookup
\* under ctx and a probe under wg.ctx return with an error, local steps are
\* taken, the one-second sleep of restartDevice ends, a select whose Done
\* case stays ready takes it eventually, and main goes on to its deferred
\* Close.  The push runs under context.Background() (tsnet.go:91), so
\* nothing makes it return.
LoopsFairness ==
    /\ WF_vars(mainCtxDone /\ resolveDomains_Lookup(Failed) /\ KeepRoutes /\ KeepHealth /\ LoopsOnly)
    /\ WF_vars(resolveAndUpdate_Unchanged /\ KeepHealth /\ LoopsOnly)
    /\ WF_vars(resolveAndUpdate_Adopt /\ KeepHealth /\ LoopsOnly)
    /\ SF_vars(StartPeriodicResolver_Done /\ KeepRoutes /\ KeepHealth /\ LoopsOnly)
    /\ WF_vars(ctxDone /\ healthCheck_FirstProbe(FALSE) /\ KeepRoutes /\ KeepResolver /\ LoopsOnly)
    /\ WF_vars(ctxDone /\ healthCheck_Probe(FALSE) /\ KeepRoutes /\ KeepResolver /\ LoopsOnly)
    /\ WF_vars(restartDevice_Up /\ KeepRoutes /\ KeepResolver /\ LoopsOnly)
    /\ SF_vars(healthCheck_Done /\ KeepRoutes /\ KeepResolver /\ LoopsOnly)
    /\ WF_vars(main_Shutdown /\ KeepRoutes /\ KeepResolver /\ LoopsOnly)

FairSpecLoops == InitLoops /\ [][NextLoops]_vars /\ LoopsFairness

StartupOnly ==
    UNCHANGED <<diffVars, routeVars, healthVars, relayVars, resolverVars, probeVars, trafficVars>>

InitStartup ==
    DiffIdle /\ RoutesInit /\ HealthInit /\ RelayInit /\ ResolverInit /\ StartupInit /\ ProbeIdle /\ TrafficInit

NextStartup ==
    \/ main_validateFlags /\ StartupOnly
    \/ main_parseDomains /\ StartupOnly
    \/ \E tunOk \in BOOLEAN : createNetTUN_NewDevice(tunOk) /\ StartupOnly
    \/ \E lookupOk, ipcOk \in BOOLEAN : createNetTUN_Configure(lookupOk, ipcOk) /\ StartupOnly
    \/ NewWireGuardClient_Return /\ StartupOnly
    \/ \E ok \in BOOLEAN : main_StartNode(ok) /\ StartupOnly
    \/ main_StartResolver /\ StartupOnly
    \/ Proxy_Start /\ StartupOnly

SpecStartup == InitStartup /\ [][NextStartup]_vars

InitParse ==
    DiffIdle /\ RoutesInit /\ HealthInit /\ RelayInit /\ ResolverInit /\ ParseInit /\ ProbeIdle /\ TrafficInit

NextParse == TestParseDomains /\ StartupOnly

SpecParse == InitParse /\ [][NextParse]_vars

ProbeOnly ==
    UNCHANGED <<diffVars, routeVars, healthVars, relayVars, resolverVars, startupVars,
                trafficVars>>

InitProbe ==
    DiffIdle /\ RoutesInit /\ HealthInit /\ RelayInit /\ ResolverInit /\ StartupIdle
        /\ ProbeInit /\ TrafficInit

NextProbe == TestCheckConnectivity /\ ProbeOnly

SpecProbe == InitProbe /\ [][NextProbe]_vars

\* The health monitor and the relay side by side: both use wg.tun and
\* wg.dev of the same WireGuardClient (part_001:70-73, 110-120).
TunnelOnly ==
    UNCHANGED <<diffVars, routeVars, resolverVars, startupVars, probeVars, trafficVars>>
KeepRelay == UNCHANGED relayVars

InitTunnel ==
    DiffIdle /\ RoutesInit /\ HealthInit /\ RelayInit /\ ResolverInit /\ StartupIdle
        /\ ProbeIdle /\ TrafficInit

NextTunnel ==
    \/ \E ok \in BOOLEAN : healthCheck_FirstProbe(ok) /\ KeepRelay /\ TunnelOnly
    \/ healthCheck_Done /\ KeepRelay /\ TunnelOnly
    \/ ProbeCount < LoopProbes /\ healthCheck_Tick /\ KeepRelay /\ TunnelOnly
    \/ \E ok \in BOOLEAN : healthCheck_Probe(ok) /\ KeepRelay /\ TunnelOnly
    \/ restartDevice_Up /\ KeepRelay /\ TunnelOnly
    \/ Close /\ KeepRelay /\ TunnelOnly
    \/ \E c \in Conns : handleConnection_Dial(c) /\ KeepHealth /\ TunnelOnly
    \/ \E c \in Conns : handleConnection_DialFailed(c) /\ KeepHealth /\ TunnelOnly
    \/ \E c \in Conns : handleConnection_StartPumps(c) /\ KeepHealth /\ TunnelOnly
    \/ \E c \in Conns : pumpCS_Finish(c) /\ KeepHealth /\ TunnelOnly
    \/ \E c \in Conns : pumpSC_Finish(c) /\ KeepHealth /\ TunnelOnly
    \/ \E c \in Conns : handleConnection_Done(c) /\ KeepHealth /\ TunnelOnly
    \/ \E c \in Conns : handleConnection_Timeout(c) /\ KeepHealth /\ TunnelOnly

SpecTunnel == InitTunnel /\ [][NextTunnel]_vars

\* The relay with the traffic of its pumps.
KeepTraffic == UNCHANGED trafficVars
TrafficOnly ==
    UNCHANGED <<diffVars, routeVars, healthVars, resolverVars, startupVars, probeVars>>

InitTraffic ==
    DiffIdle /\ RoutesInit /\ HealthInit /\ RelayInit /\ ResolverInit /\ StartupIdle
        /\ ProbeIdle /\ TrafficInit

NextTraffic ==
    \/ \E c \in Conns : handleConnection_Dial(c) /\ KeepTraffic /\ TrafficOnly
    \/ \E c \in Conns : handleConnection_DialFailed(c) /\ KeepTraffic /\ TrafficOnly
    \/ \E c \in Conns : handleConnection_StartPumps(c) /\ KeepTraffic /\ TrafficOnly
    \/ \E c \in Conns : pumpCS_Copy(c) /\ TrafficOnly
    \/ \E c \in Conns : pumpSC_Copy(c) /\ TrafficOnly
    \/ \E c \in Conns : pumpCS_Finish(c) /\ KeepTraffic /\ TrafficOnly
    \/ \E c \in Conns : pumpSC_Finish(c) /\ KeepTraffic /\ TrafficOnly
    \/ \E c \in Conns : handleConnection_Done(c) /\ KeepTraffic /\ TrafficOnly
    \/ \E c \in Conns : handleConnection_Timeout(c) /\ KeepTraffic /\ TrafficOnly

SpecTraffic == InitTraffic /\ [][NextTraffic]_vars

\* The handler's own steps are taken as in RelayFairness; a pump whose
\* connections have been closed finds its blocked read or write failing and
\* returns.  Nothing makes a pump finish while the connections are open,
\* and nothing stops the peers from sending.
TrafficFairness ==
    \A c \in Conns :
        /\ WF_vars(handleConnection_DialFailed(c) /\ KeepTraffic /\ TrafficOnly)
        /\ WF_vars(handleConnection_StartPumps(c) /\ KeepTraffic /\ TrafficOnly)
        /\ WF_vars(handleConnection_Done(c) /\ KeepTraffic /\ TrafficOnly)
        /\ WF_vars(handleConnection_Timeout(c) /\ KeepTraffic /\ TrafficOnly)
        /\ WF_vars(clientCloses[c] > 0 /\ serverCloses[c] > 0
                       /\ pumpCS_Finish(c) /\ KeepTraffic /\ TrafficOnly)
        /\ WF_vars(clientCloses[c] > 0 /\ serverCloses[c] > 0
                       /\ pumpSC_Finish(c) /\ KeepTraffic /\ TrafficOnly)

FairSpecTraffic == InitTraffic /\ [][NextTraffic]_vars /\ TrafficFairness

\* main from its first statement, with the resolver goroutine running from
\* the go statement of main.go:98 on.
BootOnly == UNCHANGED <<diffVars, healthVars, relayVars, probeVars, trafficVars>>
KeepStartup == UNCHANGED startupVars
ResolverRuns == "resolver" \in started

InitBoot ==
    DiffIdle /\ RoutesInit /\ HealthInit /\ RelayInit /\ ResolverInit /\ BootInit
        /\ ProbeIdle /\ TrafficInit

NextBoot ==
    \/ main_validateFlags /\ KeepRoutes /\ KeepResolver /\ BootOnly
    \/ main_parseDomains /\ KeepRoutes /\ KeepResolver /\ BootOnly
    \/ \E tunOk \in BOOLEAN : createNetTUN_NewDevice(tunOk) /\ KeepRoutes /\ KeepResolver /\ BootOnly
    \/ \E lookupOk, ipcOk \in BOOLEAN :
          createNetTUN_Configure(lookupOk, ipcOk) /\ KeepRoutes /\ KeepResolver /\ BootOnly
    \/ NewWireGuardClient_Return /\ KeepRoutes /\ KeepResolver /\ BootOnly
    \/ \E ok \in BOOLEAN : main_StartNode(ok) /\ KeepRoutes /\ KeepResolver /\ BootOnly
    \/ main_StartResolver /\ KeepRoutes /\ KeepResolver /\ BootOnly
    \/ Proxy_Start /\ KeepRoutes /\ KeepResolver /\ BootOnly
    \/ \E out \in LoopLookups :
          ResolverRuns /\ resolveDomains_Lookup(out) /\ KeepRoutes /\ KeepStartup /\ BootOnly
    \/ ResolverRuns /\ resolveAndUpdate_Unchanged /\ KeepStartup /\ BootOnly
    \/ ResolverRuns /\ resolveAndUpdate_Adopt /\ KeepStartup /\ BootOnly
    \/ ResolverRuns /\ resolveAndUpdate_PushOk /\ KeepStartup /\ BootOnly
    \/ ResolverRuns /\ resolveAndUpdate_PushFailed /\ KeepStartup /\ BootOnly
    \/ ResolverRuns /\ TickerFires /\ KeepRoutes /\ KeepStartup /\ BootOnly
    \/ ResolverRuns /\ StartPeriodicResolver_Tick /\ KeepRoutes /\ KeepStartup /\ BootOnly
    \/ ResolverRuns /\ StartPeriodicResolver_Done /\ KeepRoutes /\ KeepStartup /\ BootOnly
    \/ mainPc \notin {"validate", "parse", "aborted"} /\ Cancel /\ KeepRoutes /\ KeepStartup /\ BootOnly

SpecBoot == InitBoot /\ [][NextBoot]_vars

\* ------------------------------------------------------------------------
\* Properties of the reconciler (SpecRoutes)
\* ------------------------------------------------------------------------
LastCall == calls[Len(calls)]

Pushes(rec) == IF rec.outcome = "skip" THEN 0 ELSE 1

\* C1: whenever no UpdateRoutes call is in progress, tn.routes is the
\* argument of the most recent push that succeeded (the empty list if none
\* did), never a list whose push failed; and after a failed push the list
\* that was current before the call is found "not different".
C1_CurrentIsLastPushed ==
    urPc = "idle" =>
        /\ routes = lastPushed
        /\ (Len(calls) > 0 /\ LastCall.outcome = "fail") =>
              /\ routes # LastCall.arg
              /\ ~routesDifferent(routes, LastCall.before)

\* a push succeeded, the next push (of another list) failed and was rolled back
C1_Witness ==
    /\ urPc = "idle"
    /\ Len(calls) = 2
    /\ calls[1].outcome = "ok"
    /\ calls[2].outcome = "fail"
    /\ Len(calls[1].arg) > 0
    /\ routes = calls[1].arg

\* C2: UpdateRoutes with a list equal as a set to the current one never
\* reaches setAdvertisedRoutes and leaves tn.routes as it was.
C2_EqualSetIsNoop ==
    /\ urPc = "push" => Range(urArg) # Range(oldRoutes)
    /\ \A i \in 1..Len(calls) :
          Range(calls[i].arg) = Range(calls[i].before) => calls[i].outcome = "skip"
    /\ (urPc = "idle" /\ Len(calls) > 0 /\ LastCall.outcome = "skip") =>
          routes = LastCall.before

\* the current list was offered again in another order, and skipped
C2_Witness ==
    /\ urPc = "idle"
    /\ Len(calls) > 0
    /\ LastCall.outcome = "skip"
    /\ Len(LastCall.arg) = 2
    /\ LastCall.arg # LastCall.before
    /\ Range(LastCall.arg) = Range(LastCall.before)
    /\ routes = LastCall.before

SameSetTwice == Len(calls) = 2 /\ Range(calls[1].arg) = Range(calls[2].arg)

\* C3 as stated: two UpdateRoutes calls in succession with the same set
\* make at most one push, whatever the push outcomes.
C3_AtMostOnePush ==
    SameSetTwice => Pushes(calls[1]) + Pushes(calls[2]) <= 1

\* C3 as amended: of two UpdateRoutes calls in succession with the same
\* set, the second pushes only if the push of the first failed; so at most
\* one push succeeds, and none is repeated after a success.
C3_SecondPushOnlyAfterFailure ==
    SameSetTwice =>
        /\ calls[1].outcome # "fail" => calls[2].outcome = "skip"
        /\ ~(calls[1].outcome = "ok" /\ calls[2].outcome = "ok")

\* a set was pushed with success and then offered again in another order
C3_Witness ==
    /\ SameSetTwice
    /\ calls[1].outcome = "ok"
    /\ calls[2].outcome = "skip"
    /\ Len(calls[1].arg) = 2
    /\ calls[1].arg # calls[2].arg

\* ------------------------------------------------------------------------
\* Properties of routesDifferent (SpecDiff)
\* ------------------------------------------------------------------------
Count(p, s) == Cardinality({i \in 1..Len(s) : s[i] = p})

IsReordering(s, t) == \A p \in Prefixes : Count(p, s) = Count(p, t)

\* C4: on lists without repeated prefixes routesDifferent answers "same"
\* exactly when both lists hold the same prefixes, in whatever order.
C4_DupFreeExact ==
    (tGot # "unset" /\ IsDupFree(tOld) /\ IsDupFree(tNew)) =>
        tGot = Verdict(Range(tOld) # Range(tNew))

\* two orders of one mixed IPv4/IPv6 list were compared
C4_Witness ==
    /\ tGot = "same"
    /\ IsDupFree(tOld) /\ IsDupFree(tNew)
    /\ Len(tOld) = 3
    /\ tOld # tNew
    /\ \E i, j \in 1..Len(tOld) : Is4(tOld[i].addr) /\ ~Is4(tOld[j].addr)

\* C5: on all lists, repeated prefixes included, the answer is the same
\* with current and new exchanged, a list does not differ from itself, and
\* a reordering of a list does not differ from it.
C5_SymmetricReflexive ==
    /\ (tGot # "unset" /\ tGotRev # "unset") => tGot = tGotRev
    /\ (tGot # "unset" /\ tOld = tNew) => tGot = "same"
    /\ (tGot # "unset" /\ IsReordering(tOld, tNew)) => tGot = "same"

\* ------------------------------------------------------------------------
\* Properties of the health monitor (SpecHealth)
\* ------------------------------------------------------------------------
\* number of failed probes in a row that end at position i of the log
TrailingFails(log, i) ==
    CHOOSE k \in 0..i :
        /\ \A j \in (i - k + 1)..i : log[j] = "fail"
        /\ (k < i => log[i - k] # "fail")

LastEvent == events[Len(events)]

\* C6: counting the first probe, a restart is triggered at the third failed
\* probe in a row and at no other time, the counter is 0 again when the
\* monitor waits for the next tick, and a success resets the counter to 0
\* without a restart.
C6_RestartAtThirdFailure ==
    /\ \A i \in 1..Len(events) :
          events[i] = "restart" <=> (i > 1 /\ TrailingFails(events, i - 1) = 3)
    /\ \A i \in 1..Len(events) :
          (events[i] = "fail" /\ TrailingFails(events, i) = 3) => i < Len(events)
    /\ (hcPc = "select" /\ LastEvent \in {"restart", "ok"}) => consecutiveFailures = 0
    /\ hcPc = "sleep" => LastEvent = "restart"

\* the first probe and the next two ticks failed, the restart is over
C6_Witness ==
    /\ hcPc = "select"
    /\ events = <<"fail", "fail", "fail", "restart">>
    /\ consecutiveFailures = 0
    /\ dev = "up"

NewFails == Cardinality({i \in (Len(events) + 1)..Len(events') : events'[i] = "fail"})

\* C7: consecutiveFailures <= failureCount in every state, and failureCount
\* grows by exactly 1 with each failed probe and changes at no other step.
C7_TotalFailuresMonotonic ==
    /\ [](consecutiveFailures <= failureCount)
    /\ [][failureCount' = failureCount + NewFails]_vars

\* failures went on after a restart and a success: 5 in total, 1 in a row
C7_Witness ==
    /\ hcPc = "select"
    /\ failureCount = 5
    /\ consecutiveFailures = 1
    /\ \E i \in 1..Len(events) : events[i] = "restart"
    /\ \E i \in 1..Len(events) : events[i] = "ok"

\* ------------------------------------------------------------------------
\* Properties of the relay (SpecRelay, FairSpecRelay)
\* ------------------------------------------------------------------------
\* C8: after a successful dial the handler returns only when both pumps
\* have completed or the timer has fired; one completed pump alone, in
\* either direction, does not end the relay.
C8_EndsOnlyWhenBothPumpsDone ==
    \A c \in Conns :
        (hPc[c] = "returned" /\ exitPath[c] = "done") =>
            (pumpCS[c] = "done" /\ pumpSC[c] = "done")

\* C9: when the handler has returned, Close has been called exactly once
\* on the inbound connection and, if the dial succeeded, exactly once on
\* the outbound connection (never on it otherwise).
C9_ClosedExactlyOnce ==
    \A c \in Conns :
        hPc[c] = "returned" =>
            /\ clientCloses[c] = 1
            /\ serverCloses[c] = (IF exitPath[c] = "dialerr" THEN 0 ELSE 1)

\* C10: when the timer fires both connections are closed and the handler
\* returns, also when neither pump ever completes; so every invocation of
\* handleConnection eventually returns.
C10_IdleTimeoutTerminates ==
    /\ [](\A c \in Conns :
            exitPath[c] = "timeout" =>
                (hPc[c] = "returned" /\ clientCloses[c] >= 1 /\ serverCloses[c] >= 1))
    /\ \A c \in Conns : (hPc[c] = "dial") ~> (hPc[c] = "returned")

\* a relay whose pumps are both still copying was ended by the timer
C10_Witness ==
    \E c \in Conns :
        /\ hPc[c] = "returned"
        /\ exitPath[c] = "timeout"
        /\ pumpCS[c] = "copy"
        /\ pumpSC[c] = "copy"
        /\ clientCloses[c] >= 1
        /\ serverCloses[c] >= 1

\* C11: when the dial fails the handler closes the inbound connection and
\* does nothing else: no pump is started, no timer is armed, and Close is
\* never called on an outbound connection.
C11_DialFailureOnlyClosesInbound ==
    \A c \in Conns :
        exitPath[c] = "dialerr" =>
            /\ hPc[c] = "returned"
            /\ clientCloses[c] = 1
            /\ serverCloses[c] = 0
            /\ pumpCS[c] = "none" /\ pumpSC[c] = "none"
            /\ ~doneCh[c]
            /\ timer[c] = "unarmed"

\* one dial failed while another connection is being relayed
C11_Witness ==
    \E c, d \in Conns :
        /\ exitPath[c] = "dialerr"
        /\ clientCloses[c] = 1
        /\ hPc[d] = "select"

\* ------------------------------------------------------------------------
\* Properties of the resolver (SpecResolver)
\* ------------------------------------------------------------------------
\* the addresses this cycle's successful lookups returned
Returned == UNION {lookups[i].ips : i \in {j \in 1..Len(lookups) : ~lookups[j].err}}

AllFailed == \A i \in 1..Len(lookups) : lookups[i].err

\* the full-width host prefix of an IP address: /32 for IPv4, /128 for IPv6
FullWidth(ip) == PrefixFrom(ip.addr, IF Is4(ip.addr) THEN 32 ELSE 128)

\* C12: what a cycle delivers is exactly the duplicate-free union of the
\* addresses of the lookups that succeeded, each as a full-width host
\* prefix (/32 for IPv4, /128 for IPv6); failed lookups add nothing and
\* take nothing away.
C12_DeliversUnionOfResolved ==
    rsPc = "resolved" =>
        /\ Len(lookups) = Len(Domains)
        /\ IsDupFree(prefixes)
        /\ Range(prefixes) = {FullWidth(ip) : ip \in Returned}

\* C13: a cycle in which every lookup failed makes no push and leaves
\* tn.routes as it was before the cycle.
C13_AllFailedKeepsRoutes ==
    [][(rsPc = "resolved" /\ AllFailed) => (routes' = routes /\ urPc' = "idle")]_vars

\* C14: at most one cycle is in flight, it delivers at most once and only
\* after all its lookups have returned, and a push is in progress only
\* inside the one delivery of the one cycle in flight.
C14_CyclesDoNotOverlap ==
    /\ cyclesInFlight <= 1
    /\ cycleDeliveries <= 1
    /\ (rsPc \in {"lookup", "resolved", "update"}) <=> (cyclesInFlight = 1)
    /\ rsPc = "resolved" => Len(lookups) = Len(Domains)
    /\ rsPc = "lookup" => (Len(lookups) < Len(Domains) /\ cycleDeliveries = 0 /\ urPc = "idle")
    /\ urPc = "push" => (rsPc = "update" /\ cycleDeliveries = 1)

\* the next tick arrives while a later cycle is still in its push
C14_Witness ==
    /\ rsPc = "update"
    /\ urPc = "push"
    /\ tickPending
    /\ Len(calls) = 2

\* C17: a failed push is not retried before the next cycle (a cycle pushes
\* at most once, and no push is in progress outside a cycle's delivery);
\* when the next cycle resolves the same set again, it finds tn.routes
\* rolled back, pushes again, and on success tn.routes becomes that set.
C17_RetryOnNextCycle ==
    /\ cycleDeliveries <= 1
    /\ rsPc \in {"lookup", "resolved", "select", "exit"} => urPc = "idle"
    /\ (Len(calls) = 2 /\ calls[1].outcome = "fail"
            /\ Range(calls[2].arg) = Range(calls[1].arg)) =>
          /\ calls[2].before = calls[1].before
          /\ calls[2].outcome # "skip"
          /\ (calls[2].outcome = "ok" /\ urPc = "idle") => routes = calls[2].arg

\* the push of a set failed in one cycle and succeeded in the next
C17_Witness ==
    /\ Len(calls) = 2
    /\ calls[1].outcome = "fail"
    /\ calls[2].outcome = "ok"
    /\ Range(calls[2].arg) = Range(calls[1].arg)
    /\ Len(calls[2].arg) = 2
    /\ rsPc = "select"
    /\ routes = calls[2].arg

\* ------------------------------------------------------------------------
\* Properties of the two periodic loops (SpecLoops, FairSpecLoops)
\* ------------------------------------------------------------------------
\* C15: once the context is cancelled, the resolver loop and the health
\* loop both terminate, whatever they were suspended in at the time.
C15_CancellationEndsBothLoops ==
    mainCtxDone ~> (rsPc = "exit" /\ hcPc = "exit")

\* C16: neither loop ends on an error.  A loop reaches its exit only from
\* its select and only with its context cancelled; after a lookup, a push,
\* a probe or a restart, failed or not, the loop is on its way back to the
\* select.
C16_LoopsSurviveErrors ==
    [][/\ (rsPc # "exit" /\ rsPc' = "exit") => (rsPc = "select" /\ mainCtxDone)
       /\ (hcPc # "exit" /\ hcPc' = "exit") => (hcPc = "select" /\ ctxDone)
       /\ rsPc = "lookup" => rsPc' \in {"lookup", "resolved"}
       /\ rsPc = "resolved" => rsPc' \in {"resolved", "update", "select"}
       /\ rsPc = "update" => rsPc' \in {"update", "select"}
       /\ hcPc = "probe0" => hcPc' \in {"probe0", "select"}
       /\ hcPc = "probe" => hcPc' \in {"probe", "select", "sleep"}
       /\ hcPc = "sleep" => hcPc' \in {"sleep", "select"}]_vars

\* both loops are back at their select, not cancelled, after a failed push
\* and after three failed probes and the restart they caused
C16_Witness ==
    /\ rsPc = "select"
    /\ hcPc = "select"
    /\ ~mainCtxDone
    /\ ~ctxDone
    /\ Len(calls) >= 1
    /\ LastCall.outcome = "fail"
    /\ Len(events) >= 1
    /\ LastEvent = "restart"
    /\ failureCount = RestartThreshold

\* ------------------------------------------------------------------------
\* Properties of startup (SpecStartup) and of parseDomains (SpecParse)
\* ------------------------------------------------------------------------
\* the required configuration is present
RequiredPresent ==
    /\ wgPrivateKey # ""
    /\ wgPublicKey # ""
    /\ wgEndpoint # ""
    /\ parseDomains(domains) # <<>>

\* C18: the process is running only with a non-empty private key, public
\* key and endpoint and a domains value that yields at least one domain;
\* without them nothing is ever started.
C18_RunsOnlyFullyConfigured ==
    /\ mainPc = "running" => (RequiredPresent /\ Len(domainList) >= 1)
    /\ ~RequiredPresent => (started = {} /\ mainPc # "running")

\* the keys or the endpoint are not what buildConfig accepts
MalformedConfig ==
    \/ ~KeyOk(wgPrivateKey)
    \/ ~KeyOk(wgPublicKey)
    \/ (wgPresharedKey # "" /\ ~KeyOk(wgPresharedKey))
    \/ SplitHostPort(wgEndpoint).err

\* C19: with a private key, public key or non-empty preshared key that is
\* not base64 of exactly 32 bytes, or an endpoint that is not host:port,
\* buildConfig returns an error; once it has been called,
\* NewWireGuardClient has returned that error, the device it created is
\* closed, and the health check is never started.
C19_MalformedConfigAborts ==
    MalformedConfig =>
        /\ \A lookupOk \in BOOLEAN :
              buildConfig(wgPrivateKey, wgPublicKey, wgPresharedKey, wgEndpoint, lookupOk).err
        /\ "health" \notin started
        /\ mainPc \notin {"client", "node", "spawn", "proxy", "running"}
        /\ device \in {"none", "down", "closed"}
        /\ (device = "down" <=> mainPc = "config")
        /\ (mainPc = "aborted" /\ wgErr # "" /\ wgErr # "tun") =>
              (wgErr = "config" /\ device = "closed")

\* flags that pass validateFlags, keys of 32 bytes, a preshared key of 4
\* bytes: buildConfig failed, the device is closed, main has exited
C19_Witness ==
    /\ mainPc = "aborted"
    /\ wgErr = "config"
    /\ device = "closed"
    /\ started = {}
    /\ wgPrivateKey = "valid32"
    /\ wgPublicKey = "valid32"
    /\ wgPresharedKey = "YWJjZA=="
    /\ wgEndpoint = "192.168.1.1:51820"

\* the separators the tokens of a domains value lie between: the comma,
\* the space and the tab
Separators == {",", " ", "\t"}

\* the maximal non-empty runs of characters that are not separators
Tokens(s) == NonEmpty(Split(s, Separators))

\* C20: parseDomains returns exactly the tokens of its input, in order.
C20_ReturnsExactlyTheTokens ==
    mainPc = "tested" => domainList = Tokens(domains)

\* ------------------------------------------------------------------------
\* Further properties of the health monitor (SpecHealth)
\* ------------------------------------------------------------------------
\* C21: a restart is Down, then the pause, then Up, and the step that calls
\* Up sets consecutiveFailures to 0 whether or not the device obeyed; the
\* counter is not reset at Down or during the pause.
C21_RestartDownPauseUpReset ==
    [][/\ (hcPc # "sleep" /\ hcPc' = "sleep") =>
              /\ dev' = DevSet("down")
              /\ consecutiveFailures' >= RestartThreshold
       /\ (hcPc = "sleep" /\ hcPc' = "sleep") =>
              /\ consecutiveFailures' = consecutiveFailures
              /\ dev' \in {dev, "closed"}
       /\ (hcPc = "sleep" /\ hcPc' # "sleep") =>
              /\ dev' = DevSet("up")
              /\ consecutiveFailures' = 0
              /\ hcPc' = "select"
       /\ (consecutiveFailures >= RestartThreshold /\ consecutiveFailures' = 0) =>
              hcPc = "sleep"]_vars

\* a restart on a closed device, where Down and Up fail: the counter is 0
C21_Witness ==
    /\ hcPc = "select"
    /\ LastEvent = "restart"
    /\ dev = "closed"
    /\ consecutiveFailures = 0

\* C22: the first probe is made before the loop waits for a tick; after it
\* the counters are 0 and 0 on success, 1 and 1 on failure, and no tick is
\* handled before that.
C22_FirstProbeBeforeLoop ==
    /\ hcPc = "probe0" <=> events = <<>>
    /\ hcPc = "probe0" => (consecutiveFailures = 0 /\ failureCount = 0)
    /\ (Len(events) = 1 /\ events[1] = "ok") =>
          (hcPc \in {"select", "probe", "exit"} /\ consecutiveFailures = 0 /\ failureCount = 0)
    /\ (Len(events) = 1 /\ events[1] = "fail") =>
          (hcPc \in {"select", "probe", "exit"} /\ consecutiveFailures = 1 /\ failureCount = 1)

\* the first probe failed and the loop is at its first select
C22_Witness ==
    /\ hcPc = "select"
    /\ events = <<"fail">>
    /\ consecutiveFailures = 1
    /\ failureCount = 1

\* C29: consecutiveFailures stays within 0..3, and is at most 2 whenever
\* the monitor waits for the next tick.
C29_ConsecutiveFailuresBounded ==
    /\ consecutiveFailures \in 0..RestartThreshold
    /\ hcPc = "select" => consecutiveFailures <= RestartThreshold - 1
    /\ consecutiveFailures = RestartThreshold => hcPc = "sleep"

\* the value 3, during the pause of the restart
C29_Witness ==
    /\ hcPc = "sleep"
    /\ consecutiveFailures = RestartThreshold
    /\ dev = "down"

\* ------------------------------------------------------------------------
\* Further properties of routesDifferent (SpecDiff)
\* ------------------------------------------------------------------------
\* C23: routesDifferent answers "same" exactly when the two lists have the
\* same set of members, however often a prefix is repeated in either.
C23_SetEqualityWithDuplicates ==
    tGot # "unset" => tGot = Verdict(Range(tOld) # Range(tNew))

\* ------------------------------------------------------------------------
\* Properties of checkConnectivity (SpecProbe)
\* ------------------------------------------------------------------------
\* C25: a probe is a success exactly when the request ends with a status
\* code in 200..299; any other status, an error and the timeout are
\* failures.
C25_SuccessIffStatus2xx ==
    probeRes # "unset" =>
        (probeRes = "success" <=>
            (probeResp.kind = "status" /\ probeResp.code \in 200..299))

\* ------------------------------------------------------------------------
\* Further properties of the two periodic loops (SpecLoops)
\* ------------------------------------------------------------------------
\* C26: once its cancellation has fired, a loop begins no new cycle: the
\* resolver starts no lookup and no push after main's context is cancelled,
\* the monitor starts no probe, counts no failure and restarts nothing
\* after Close.
C26_NoNewCycleAfterCancellation ==
    [][/\ mainCtxDone => ~(rsPc = "select" /\ rsPc' = "lookup")
       /\ ctxDone => ~(hcPc = "select" /\ hcPc' = "probe")]_vars

\* ------------------------------------------------------------------------
\* Properties of the monitor and the relay together (SpecTunnel)
\* ------------------------------------------------------------------------
\* C24: while the device is between the Down and the Up of a restart, no
\* relay is inside DialContext, and none enters it.
C24_NoDialDuringRestart ==
    \A c \in Conns : ~(hcPc = "sleep" /\ hPc[c] = "dial")

\* ------------------------------------------------------------------------
\* Properties of the relay with traffic (SpecTraffic, FairSpecTraffic)
\* ------------------------------------------------------------------------
\* C27: the timer is armed once, when the pumps start, and no chunk copied
\* in either direction touches it; it fires on a relay whose pumps are
\* still copying, closing both connections, so a relay waiting in its
\* select returns however long the traffic goes on.
C27_TimerNotRearmedByTraffic ==
    /\ [][\A c \in Conns :
            /\ lastChunk'[c] # lastChunk[c] => timer'[c] = timer[c]
            /\ (timer[c] # "armed" /\ timer'[c] = "armed") =>
                  (timer[c] = "unarmed" /\ hPc[c] = "dial" /\ hPc'[c] = "select")
            /\ timer'[c] \in {"unarmed", "armed", "fired"}
            /\ (timer[c] = "armed" /\ timer'[c] # "armed") =>
                  /\ timer'[c] = "fired"
                  /\ hPc'[c] = "returned"
                  /\ clientCloses'[c] >= 1
                  /\ serverCloses'[c] >= 1]_vars
    /\ \A c \in Conns : (hPc[c] = "select") ~> (hPc[c] = "returned")

\* the timer ended a relay whose pumps were both still copying and had
\* just moved a chunk
C27_Witness ==
    \E c \in Conns :
        /\ exitPath[c] = "timeout"
        /\ timer[c] = "fired"
        /\ lastChunk[c] = "sc"
        /\ pumpCS[c] = "copy"
        /\ pumpSC[c] = "copy"

\* C28: after handleConnection has returned from its select, by <-done or
\* by the timer, both connections have been closed, and both pumps
\* eventually terminate.
C28_PumpsEndAfterRelay ==
    /\ [](\A c \in Conns :
            (hPc[c] = "returned" /\ exitPath[c] \in {"done", "timeout"}) =>
                (clientCloses[c] >= 1 /\ serverCloses[c] >= 1))
    /\ \A c \in Conns :
          (hPc[c] = "returned") ~> (pumpCS[c] # "copy" /\ pumpSC[c] # "copy")

\* the relay ended on <-done while the client-to-server pump was copying,
\* and that pump has terminated since
C28_Witness ==
    \E c \in Conns :
        /\ hPc[c] = "returned"
        /\ exitPath[c] = "done"
        /\ lastChunk[c] = "cs"
        /\ pumpCS[c] = "done"
        /\ pumpSC[c] = "done"
        /\ clientCloses[c] >= 1
        /\ serverCloses[c] >= 1

\* ------------------------------------------------------------------------
\* Properties of main with the resolver (SpecBoot)
\* ------------------------------------------------------------------------
\* C30: no setAdvertisedRoutes call is made before Proxy.Start has
\* registered the TCP handler.
C30_HandlerBeforeFirstPush ==
    urPc = "push" => "proxy" \in started

====
